---- MODULE Spec2Model ----
(***************************************************************************)
(* Model of the mii crate: the per-device II command encoders              *)
(* (devices/ansible.rs, er301.rs, just_friends.rs, telexo.rs) and the      *)
(* shared-bus device wrapper with the 16n faderbank (lib.rs).              *)
(*                                                                         *)
(* Rust slices are 0-indexed; a buffer is a TLA+ sequence and index i of   *)
(* the source is element i+1 of the sequence.                              *)
(***************************************************************************)
EXTENDS Integers, Sequences, FiniteSets, TLC

VARIABLES buffer, last, i2c, fader_buf, ret

vars == <<buffer, last, i2c, fader_buf, ret>>

(***************************************************************************)
(* Bounds and input domains                                                *)
(***************************************************************************)
MaxBufLen == 7
MaxTx == 2

\* prior contents of a caller's buffer
Fill == {0, 170}
\* u8 field values: one in range, one outside every documented range
U8Vals == {1, 200}
\* i16 field values, with the extremes
I16Vals == {-32768, -1, 16000, 32767}
\* u16 field values, with the extremes
U16Vals == {255, 256, 65535}

(***************************************************************************)
(* Primitive conversions                                                   *)
(***************************************************************************)
\* `state as u8` for a bool
bool_as_u8(b) == IF b THEN 1 ELSE 0

\* i16::to_be_bytes: the two's-complement pattern, most significant first
i16_to_le_bytes(v) ==
    LET u == IF v < 0 THEN v + 65536 ELSE v
    IN  <<u % 256, u \div 256>>

i16_to_be_bytes(v) ==
    LET u == IF v < 0 THEN v + 65536 ELSE v
    IN  <<u \div 256, u % 256>>

\* u16::to_be_bytes
u16_to_be_bytes(v) == <<v \div 256, v % 256>>

(***************************************************************************)
(* Indexed writes into a caller-supplied slice.  A write or a slice past   *)
(* the end of the buffer panics (Rust bounds check); the writes made       *)
(* before the panic stay in the buffer.                                    *)
(***************************************************************************)
Running(buf) == [status |-> "run", buf |-> buf, out |-> <<>>]

\* return Err(SerializationError::BufferTooSmall)
BufferTooSmall(buf) == [status |-> "Err", buf |-> buf, out |-> <<>>]

\* buffer[i] = v
Store(st, i, v) ==
    IF st.status # "run" THEN st
    ELSE IF i < Len(st.buf) THEN [st EXCEPT !.buf[i + 1] = v]
    ELSE [st EXCEPT !.status = "panic"]

\* buffer[0] = bytes[1]; buffer[1] = bytes[2]; ... in source order
RECURSIVE StoreFrom(_, _, _)
StoreFrom(st, i, bytes) ==
    IF bytes = <<>> THEN st
    ELSE StoreFrom(Store(st, i, Head(bytes)), i + 1, Tail(bytes))

\* Ok(&buffer[..n])
OkSlice(st, n) ==
    IF st.status # "run" THEN st
    ELSE IF n <= Len(st.buf)
         THEN [status |-> "Ok", buf |-> st.buf, out |-> SubSeq(st.buf, 1, n)]
         ELSE [st EXCEPT !.status = "panic"]

(***************************************************************************)
(* devices/ansible.rs                                                      *)
(***************************************************************************)
Ansible_ADDRESS == 32

Ansible_MAX_LENGTH == 4

AnsibleCommands ==
    [tag : {"SetCv"}, port : U8Vals, value : I16Vals]
    \cup [tag : {"SetCvSlew"}, port : U8Vals, ms : U16Vals]
    \cup [tag : {"SetCvFromFader"}, device_port : U8Vals, value : U16Vals]
    \cup [tag : {"SetTrState"}, port : U8Vals, state : BOOLEAN]
    \cup [tag : {"SetTrToggle"}, port : U8Vals]
    \cup [tag : {"SetTrPulse"}, port : U8Vals]
    \cup [tag : {"SetTrPulseDuration"}, port : U8Vals, ms : U16Vals]
    \cup [tag : {"LoadPreset"}, preset : U8Vals]
    \cup [tag : {"SavePreset"}, preset : U8Vals]
    \cup [tag : {"KriaSetStep"}, track : U8Vals, step : U8Vals, state : U8Vals]

Ansible_SetCv(cmd, st) ==
    LET value_bytes == i16_to_be_bytes(cmd.value)
    IN  OkSlice(StoreFrom(st, 0, <<1, cmd.port, value_bytes[1], value_bytes[2]>>), 4)

Ansible_SetCvSlew(cmd, st) ==
    LET ms_bytes == u16_to_be_bytes(cmd.ms)
    IN  OkSlice(StoreFrom(st, 0, <<2, cmd.port, ms_bytes[1], ms_bytes[2]>>), 4)

Ansible_SetCvFromFader(cmd, st) ==
    LET value_bytes == u16_to_be_bytes(cmd.value)
    IN  OkSlice(StoreFrom(st, 0, <<6, cmd.device_port, value_bytes[1], value_bytes[2]>>), 4)

Ansible_SetTrState(cmd, st) ==
    OkSlice(StoreFrom(st, 0, <<16, cmd.port, bool_as_u8(cmd.state)>>), 3)

\* a toggle that also clears the byte after the message
Ansible_SetTrToggle_clear(cmd, st) ==
    OkSlice(StoreFrom(st, 0, <<17, cmd.port, 0>>), 2)

Ansible_SetTrToggle(cmd, st) ==
    OkSlice(StoreFrom(st, 0, <<17, cmd.port>>), 2)

Ansible_SetTrPulse(cmd, st) ==
    OkSlice(StoreFrom(st, 0, <<18, cmd.port>>), 2)

Ansible_SetTrPulseDuration(cmd, st) ==
    LET ms_bytes == u16_to_be_bytes(cmd.ms)
    IN  OkSlice(StoreFrom(st, 0, <<19, cmd.port, ms_bytes[1], ms_bytes[2]>>), 4)

Ansible_LoadPreset(cmd, st) ==
    OkSlice(StoreFrom(st, 0, <<32, cmd.preset>>), 2)

Ansible_SavePreset(cmd, st) ==
    OkSlice(StoreFrom(st, 0, <<33, cmd.preset>>), 2)

Ansible_KriaSetStep(cmd, st) ==
    OkSlice(StoreFrom(st, 0, <<48, cmd.track, cmd.step, cmd.state>>), 4)

Ansible_to_bytes(cmd, buf) ==
    IF Len(buf) < Ansible_MAX_LENGTH THEN BufferTooSmall(buf)
    ELSE CASE cmd.tag = "SetCv" -> Ansible_SetCv(cmd, Running(buf))
           [] cmd.tag = "SetCvSlew" -> Ansible_SetCvSlew(cmd, Running(buf))
           [] cmd.tag = "SetCvFromFader" -> Ansible_SetCvFromFader(cmd, Running(buf))
           [] cmd.tag = "SetTrState" -> Ansible_SetTrState(cmd, Running(buf))
           [] cmd.tag = "SetTrToggle" -> Ansible_SetTrToggle(cmd, Running(buf))
           [] cmd.tag = "SetTrPulse" -> Ansible_SetTrPulse(cmd, Running(buf))
           [] cmd.tag = "SetTrPulseDuration" -> Ansible_SetTrPulseDuration(cmd, Running(buf))
           [] cmd.tag = "LoadPreset" -> Ansible_LoadPreset(cmd, Running(buf))
           [] cmd.tag = "SavePreset" -> Ansible_SavePreset(cmd, Running(buf))
           [] cmd.tag = "KriaSetStep" -> Ansible_KriaSetStep(cmd, Running(buf))

(***************************************************************************)
(* devices/er301.rs                                                        *)
(***************************************************************************)
Er301_ADDRESS == 49

Er301_MAX_LENGTH == 4

Er301Commands ==
    [tag : {"SetGate"}, port : U8Vals, state : BOOLEAN]
    \cup [tag : {"SetCv"}, port : U8Vals, value : I16Vals]
    \cup [tag : {"SetCvSlew"}, port : U8Vals, ms : U16Vals]

\* the capacity check of the arm off by one
Er301_SetGate_short(cmd, buf) ==
    IF Len(buf) < 2 THEN BufferTooSmall(buf)
    ELSE OkSlice(StoreFrom(Running(buf), 0, <<0, cmd.port, bool_as_u8(cmd.state)>>), 3)

Er301_SetGate(cmd, buf) ==
    IF Len(buf) < 3 THEN BufferTooSmall(buf)
    ELSE OkSlice(StoreFrom(Running(buf), 0, <<0, cmd.port, bool_as_u8(cmd.state)>>), 3)

Er301_SetCv(cmd, buf) ==
    IF Len(buf) < 4 THEN BufferTooSmall(buf)
    ELSE LET value_bytes == i16_to_be_bytes(cmd.value)
         IN  OkSlice(StoreFrom(Running(buf), 0,
                               <<17, cmd.port, value_bytes[1], value_bytes[2]>>), 4)

Er301_SetCvSlew(cmd, buf) ==
    IF Len(buf) < 4 THEN BufferTooSmall(buf)
    ELSE LET ms_bytes == u16_to_be_bytes(cmd.ms)
         IN  OkSlice(StoreFrom(Running(buf), 0,
                               <<18, cmd.port, ms_bytes[1], ms_bytes[2]>>), 4)

Er301_to_bytes(cmd, buf) ==
    CASE cmd.tag = "SetGate" -> Er301_SetGate(cmd, buf)
      [] cmd.tag = "SetCv" -> Er301_SetCv(cmd, buf)
      [] cmd.tag = "SetCvSlew" -> Er301_SetCvSlew(cmd, buf)

(***************************************************************************)
(* devices/just_friends.rs                                                 *)
(***************************************************************************)
JustFriends_ADDRESS == 112

JustFriends_MAX_LENGTH == 6

JustFriendsCommands ==
    [tag : {"SetGate"}, output : U8Vals, state : BOOLEAN]
    \cup [tag : {"PlayNote"}, output : U8Vals, pitch : I16Vals, volume : I16Vals]

\* a gate that only raises the state byte and relies on a zeroed buffer
JustFriends_SetGate_lazy(cmd, buf) ==
    IF Len(buf) < 3 THEN BufferTooSmall(buf)
    ELSE OkSlice(StoreFrom(Running(buf), 0,
                           IF cmd.state THEN <<1, cmd.output, 1>> ELSE <<1, cmd.output>>), 3)

JustFriends_SetGate(cmd, buf) ==
    IF Len(buf) < 3 THEN BufferTooSmall(buf)
    ELSE OkSlice(StoreFrom(Running(buf), 0, <<1, cmd.output, bool_as_u8(cmd.state)>>), 3)

\* a capacity check that asks for one byte more than the message
JustFriends_PlayNote_greedy(cmd, buf) ==
    IF Len(buf) < 7 THEN BufferTooSmall(buf)
    ELSE LET pitch_bytes == i16_to_be_bytes(cmd.pitch)
             volume_bytes == i16_to_be_bytes(cmd.volume)
         IN  OkSlice(StoreFrom(Running(buf), 0,
                               <<8, cmd.output, pitch_bytes[1], pitch_bytes[2],
                                 volume_bytes[1], volume_bytes[2]>>), 6)

JustFriends_PlayNote(cmd, buf) ==
    IF Len(buf) < 6 THEN BufferTooSmall(buf)
    ELSE LET pitch_bytes == i16_to_be_bytes(cmd.pitch)
             volume_bytes == i16_to_be_bytes(cmd.volume)
         IN  OkSlice(StoreFrom(Running(buf), 0,
                               <<8, cmd.output, pitch_bytes[1], pitch_bytes[2],
                                 volume_bytes[1], volume_bytes[2]>>), 6)

JustFriends_to_bytes(cmd, buf) ==
    CASE cmd.tag = "SetGate" -> JustFriends_SetGate(cmd, buf)
      [] cmd.tag = "PlayNote" -> JustFriends_PlayNote(cmd, buf)

(***************************************************************************)
(* devices/telexo.rs                                                       *)
(***************************************************************************)
Telexo_BASE_ADDRESS == 96

Telexo_MAX_LENGTH == 4

TelexoCommands ==
    [tag : {"SetGate"}, port : U8Vals, state : BOOLEAN]
    \cup [tag : {"SetCv"}, port : U8Vals, value : I16Vals]
    \cup [tag : {"SetCvSlew"}, port : U8Vals, ms : U16Vals]
    \cup [tag : {"SetOscPitch"}, port : U8Vals, pitch : I16Vals]
    \cup [tag : {"SetOscWaveform"}, port : U8Vals, waveform : U16Vals]
    \cup [tag : {"SetEnvelopeMode"}, port : U8Vals, enabled : BOOLEAN]
    \cup [tag : {"SetEnvelopeState"}, port : U8Vals, on : BOOLEAN]

Telexo_SetGate(cmd, st) ==
    OkSlice(StoreFrom(st, 0, <<0, cmd.port, bool_as_u8(cmd.state)>>), 3)

Telexo_SetCv(cmd, st) ==
    LET value_bytes == i16_to_be_bytes(cmd.value)
    IN  OkSlice(StoreFrom(st, 0, <<17, cmd.port, value_bytes[1], value_bytes[2]>>), 4)

Telexo_SetCvSlew(cmd, st) ==
    LET ms_bytes == u16_to_be_bytes(cmd.ms)
    IN  OkSlice(StoreFrom(st, 0, <<18, cmd.port, ms_bytes[1], ms_bytes[2]>>), 4)

Telexo_SetOscPitch(cmd, st) ==
    LET pitch_bytes == i16_to_be_bytes(cmd.pitch)
    IN  OkSlice(StoreFrom(st, 0, <<65, cmd.port, pitch_bytes[1], pitch_bytes[2]>>), 4)

Telexo_SetOscWaveform(cmd, st) ==
    LET wf_bytes == u16_to_be_bytes(cmd.waveform)
    IN  OkSlice(StoreFrom(st, 0, <<74, cmd.port, wf_bytes[1], wf_bytes[2]>>), 4)

\* the envelope-mode arm sent under the envelope-state opcode
Telexo_SetEnvelopeMode_clash(cmd, st) ==
    OkSlice(StoreFrom(st, 0, <<109, cmd.port, bool_as_u8(cmd.enabled)>>), 3)

Telexo_SetEnvelopeMode(cmd, st) ==
    OkSlice(StoreFrom(st, 0, <<96, cmd.port, bool_as_u8(cmd.enabled)>>), 3)

\* the state byte written before the port
Telexo_SetEnvelopeState_swapped(cmd, st) ==
    OkSlice(StoreFrom(st, 0, <<109, bool_as_u8(cmd.on), cmd.port>>), 3)

Telexo_SetEnvelopeState(cmd, st) ==
    OkSlice(StoreFrom(st, 0, <<109, cmd.port, bool_as_u8(cmd.on)>>), 3)

Telexo_match(cmd, st) ==
    CASE cmd.tag = "SetGate" -> Telexo_SetGate(cmd, st)
      [] cmd.tag = "SetCv" -> Telexo_SetCv(cmd, st)
      [] cmd.tag = "SetCvSlew" -> Telexo_SetCvSlew(cmd, st)
      [] cmd.tag = "SetOscPitch" -> Telexo_SetOscPitch(cmd, st)
      [] cmd.tag = "SetOscWaveform" -> Telexo_SetOscWaveform(cmd, st)
      [] cmd.tag = "SetEnvelopeMode" -> Telexo_SetEnvelopeMode(cmd, st)
      [] cmd.tag = "SetEnvelopeState" -> Telexo_SetEnvelopeState(cmd, st)

\* the single up-front check made against the shortest message
Telexo_to_bytes_shortcheck(cmd, buf) ==
    IF Len(buf) < 3 THEN BufferTooSmall(buf)
    ELSE Telexo_match(cmd, Running(buf))

Telexo_to_bytes(cmd, buf) ==
    IF Len(buf) < Telexo_MAX_LENGTH THEN BufferTooSmall(buf)
    ELSE Telexo_match(cmd, Running(buf))

(***************************************************************************)
(* The Command trait seen over the four vocabularies                       *)
(***************************************************************************)
Devices == {"ansible", "er301", "just_friends", "telexo"}

Commands(dev) ==
    CASE dev = "ansible" -> AnsibleCommands
      [] dev = "er301" -> Er301Commands
      [] dev = "just_friends" -> JustFriendsCommands
      [] dev = "telexo" -> TelexoCommands

MAX_LENGTH(dev) ==
    CASE dev = "ansible" -> Ansible_MAX_LENGTH
      [] dev = "er301" -> Er301_MAX_LENGTH
      [] dev = "just_friends" -> JustFriends_MAX_LENGTH
      [] dev = "telexo" -> Telexo_MAX_LENGTH

to_bytes(dev, cmd, buf) ==
    CASE dev = "ansible" -> Ansible_to_bytes(cmd, buf)
      [] dev = "er301" -> Er301_to_bytes(cmd, buf)
      [] dev = "just_friends" -> JustFriends_to_bytes(cmd, buf)
      [] dev = "telexo" -> Telexo_to_bytes(cmd, buf)

(***************************************************************************)
(* lib.rs: the shared bus, Device, Mii and the 16n faderbank               *)
(***************************************************************************)
\* DeviceAddress::Faderbank
Faderbank_ADDRESS == 52

\* fader_buf: [[u8; 2]; 16]
NumFaders == 16

\* what the bus hands back for a write_read of two bytes; a failed
\* transaction may leave the read buffer alone (<<>>) or clobber it
ReadPairs == {<<18, 52>>, <<255, 128>>}
BusErrors == {"Nack"}
BusOutcomes ==
    [ok : {TRUE}, data : ReadPairs, err : {"none"}]
    \cup [ok : {FALSE}, data : {<<>>, <<255, 255>>}, err : BusErrors]

\* the message another device of the same Mii is sent
OtherWrites == {<<18, 1>>}

RECURSIVE BitAnd(_, _)
BitAnd(a, b) ==
    IF a = 0 \/ b = 0 THEN 0
    ELSE (a % 2) * (b % 2) + 2 * BitAnd(a \div 2, b \div 2)

RECURSIVE BitOr(_, _)
BitOr(a, b) ==
    IF a = 0 THEN b
    ELSE IF b = 0 THEN a
    ELSE (IF a % 2 = 1 \/ b % 2 = 1 THEN 1 ELSE 0) + 2 * BitOr(a \div 2, b \div 2)

\* (x as u16) << n
Shl16(x, n) == (x * (2 ^ n)) % 65536

\* the RefMut of a statement is dropped at the end of the statement
RefCell_release_leak(cell) == cell

RefCell_release(cell) == [cell EXCEPT !.borrowed = FALSE]

\* RefCell::borrow_mut, the bus call, map_err(Error::I2C)?, Ok(())
Device_transfer(cell, tx, buf, outcome) ==
    IF cell.borrowed
    THEN [status |-> "panic", cell |-> cell, buf |-> buf, err |-> "none"]
    ELSE LET held == [cell EXCEPT !.borrowed = TRUE,
                                  !.log = Append(cell.log,
                                                 [tx |-> tx, reply |-> outcome])]
             after == IF outcome.data = <<>> THEN buf ELSE outcome.data
         IN  [status |-> IF outcome.ok THEN "Ok" ELSE "Err",
              cell |-> RefCell_release(held),
              buf |-> after,
              err |-> IF outcome.ok THEN "none" ELSE outcome.err]

Device_write(cell, address, data, outcome) ==
    Device_transfer(cell,
                    [kind |-> "write", address |-> address, bytes |-> data, read_len |-> 0],
                    <<>>, [outcome EXCEPT !.data = <<>>])

Device_read(cell, address, buf, outcome) ==
    Device_transfer(cell,
                    [kind |-> "read", address |-> address, bytes |-> <<>>,
                     read_len |-> Len(buf)],
                    buf, outcome)

Device_write_read(cell, address, data, buf, outcome) ==
    Device_transfer(cell,
                    [kind |-> "write_read", address |-> address, bytes |-> data,
                     read_len |-> Len(buf)],
                    buf, outcome)

\* the value of the Ok arm, read little-endian
fader_value_le(pair) ==
    BitOr(Shl16(pair[2], 8), BitAnd(pair[1], 255))

\* (fader_buf[no][0] as u16) << 8 | (fader_buf[no][1] as u16) & 0xff
fader_value(pair) ==
    BitOr(Shl16(pair[1], 8), BitAnd(pair[2], 255))

NoReturn ==
    [op |-> "none", no |-> 0, status |-> "none", value |-> 0, err |-> "none",
     pre_len |-> 0]

(***************************************************************************)
(* State machine                                                           *)
(***************************************************************************)
NoCall == [dev |-> "none", cmd |-> [tag |-> "none"], len |-> 0,
           status |-> "none", out |-> <<>>]

InitBusVars ==
    /\ i2c = [borrowed |-> FALSE, log |-> <<>>]
    /\ fader_buf = [n \in 0..(NumFaders - 1) |-> <<0, 0>>]
    /\ ret = NoReturn

InitEncVars ==
    /\ last = NoCall

\* a caller's buffer of any length up to MaxBufLen with some prior contents
Init ==
    /\ \E n \in 0..MaxBufLen, f \in Fill : buffer = [i \in 1..n |-> f]
    /\ InitEncVars
    /\ InitBusVars

\* cmd.to_bytes(&mut buffer) on the caller's reused buffer
Encode(dev) ==
    \E cmd \in Commands(dev) :
        LET r == to_bytes(dev, cmd, buffer)
        IN  /\ buffer' = r.buf
            /\ last' = [dev |-> dev, cmd |-> cmd, len |-> Len(buffer),
                        status |-> r.status, out |-> r.out]
            /\ UNCHANGED <<i2c, fader_buf, ret>>

AnsibleEncode == Encode("ansible")

Er301Encode == Encode("er301")

JustFriendsEncode == Encode("just_friends")

TelexoEncode == Encode("telexo")

Next ==
    \/ AnsibleEncode
    \/ Er301Encode
    \/ JustFriendsEncode
    \/ TelexoEncode

Spec == Init /\ [][Next]_vars

\* Faderbank::read_fader(no)
read_fader ==
    \E no \in 0..NumFaders, outcome \in BusOutcomes :
        /\ ret.status # "panic"
        /\ UNCHANGED <<buffer, last>>
        /\ IF no >= NumFaders
           THEN \* fader_buf[no] is out of bounds: panic before the bus is touched
                /\ ret' = [NoReturn EXCEPT !.op = "read_fader", !.no = no,
                                           !.status = "panic",
                                           !.pre_len = Len(i2c.log)]
                /\ UNCHANGED <<i2c, fader_buf>>
           ELSE /\ Len(i2c.log) < MaxTx
                /\ LET r == Device_write_read(i2c, Faderbank_ADDRESS, <<no % 256>>,
                                              fader_buf[no], outcome)
                   IN  /\ i2c' = r.cell
                       /\ fader_buf' = [fader_buf EXCEPT ![no] = r.buf]
                       /\ ret' = [op |-> "read_fader", no |-> no,
                                  status |-> r.status,
                                  value |-> IF r.status = "Ok"
                                            THEN fader_value(r.buf) ELSE 0,
                                  err |-> r.err,
                                  pre_len |-> Len(i2c.log)]

\* Device::write on another device created from the same Mii
device_write ==
    \E data \in OtherWrites, outcome \in BusOutcomes :
        /\ ret.status # "panic"
        /\ Len(i2c.log) < MaxTx
        /\ LET r == Device_write(i2c, Ansible_ADDRESS, data, outcome)
           IN  /\ i2c' = r.cell
               /\ ret' = [NoReturn EXCEPT !.op = "write", !.status = r.status,
                                          !.err = r.err, !.pre_len = Len(i2c.log)]
        /\ UNCHANGED <<buffer, last, fader_buf>>

\* Device::read on another device created from the same Mii
device_read ==
    \E outcome \in BusOutcomes :
        /\ ret.status # "panic"
        /\ Len(i2c.log) < MaxTx
        /\ LET r == Device_read(i2c, Ansible_ADDRESS, <<0, 0>>, outcome)
           IN  /\ i2c' = r.cell
               /\ ret' = [NoReturn EXCEPT !.op = "read", !.status = r.status,
                                          !.err = r.err, !.pre_len = Len(i2c.log)]
        /\ UNCHANGED <<buffer, last, fader_buf>>

InitBus ==
    /\ buffer = <<>>
    /\ InitEncVars
    /\ InitBusVars

NextBus ==
    \/ read_fader
    \/ device_write
    \/ device_read

SpecBus == InitBus /\ [][NextBus]_vars

(***************************************************************************)
(* The normative layout table of the specification and what it demands     *)
(***************************************************************************)
TableRows ==
    { [dev |-> "ansible", opcode |-> 1, tag |-> "SetCv", total |-> 4,
       fields |-> << <<"port", "u8">>, <<"value", "i16">> >>],
      [dev |-> "ansible", opcode |-> 2, tag |-> "SetCvSlew", total |-> 4,
       fields |-> << <<"port", "u8">>, <<"ms", "u16">> >>],
      [dev |-> "ansible", opcode |-> 6, tag |-> "SetCvFromFader", total |-> 4,
       fields |-> << <<"device_port", "u8">>, <<"value", "u16">> >>],
      [dev |-> "ansible", opcode |-> 16, tag |-> "SetTrState", total |-> 3,
       fields |-> << <<"port", "u8">>, <<"state", "bool">> >>],
      [dev |-> "ansible", opcode |-> 17, tag |-> "SetTrToggle", total |-> 2,
       fields |-> << <<"port", "u8">> >>],
      [dev |-> "ansible", opcode |-> 18, tag |-> "SetTrPulse", total |-> 2,
       fields |-> << <<"port", "u8">> >>],
      [dev |-> "ansible", opcode |-> 19, tag |-> "SetTrPulseDuration", total |-> 4,
       fields |-> << <<"port", "u8">>, <<"ms", "u16">> >>],
      [dev |-> "ansible", opcode |-> 32, tag |-> "LoadPreset", total |-> 2,
       fields |-> << <<"preset", "u8">> >>],
      [dev |-> "ansible", opcode |-> 33, tag |-> "SavePreset", total |-> 2,
       fields |-> << <<"preset", "u8">> >>],
      [dev |-> "ansible", opcode |-> 48, tag |-> "KriaSetStep", total |-> 4,
       fields |-> << <<"track", "u8">>, <<"step", "u8">>, <<"state", "u8">> >>],
      [dev |-> "er301", opcode |-> 0, tag |-> "SetGate", total |-> 3,
       fields |-> << <<"port", "u8">>, <<"state", "bool">> >>],
      [dev |-> "er301", opcode |-> 17, tag |-> "SetCv", total |-> 4,
       fields |-> << <<"port", "u8">>, <<"value", "i16">> >>],
      [dev |-> "er301", opcode |-> 18, tag |-> "SetCvSlew", total |-> 4,
       fields |-> << <<"port", "u8">>, <<"ms", "u16">> >>],
      [dev |-> "just_friends", opcode |-> 1, tag |-> "SetGate", total |-> 3,
       fields |-> << <<"output", "u8">>, <<"state", "bool">> >>],
      [dev |-> "just_friends", opcode |-> 8, tag |-> "PlayNote", total |-> 6,
       fields |-> << <<"output", "u8">>, <<"pitch", "i16">>, <<"volume", "i16">> >>],
      [dev |-> "telexo", opcode |-> 0, tag |-> "SetGate", total |-> 3,
       fields |-> << <<"port", "u8">>, <<"state", "bool">> >>],
      [dev |-> "telexo", opcode |-> 17, tag |-> "SetCv", total |-> 4,
       fields |-> << <<"port", "u8">>, <<"value", "i16">> >>],
      [dev |-> "telexo", opcode |-> 18, tag |-> "SetCvSlew", total |-> 4,
       fields |-> << <<"port", "u8">>, <<"ms", "u16">> >>],
      [dev |-> "telexo", opcode |-> 65, tag |-> "SetOscPitch", total |-> 4,
       fields |-> << <<"port", "u8">>, <<"pitch", "i16">> >>],
      [dev |-> "telexo", opcode |-> 74, tag |-> "SetOscWaveform", total |-> 4,
       fields |-> << <<"port", "u8">>, <<"waveform", "u16">> >>],
      [dev |-> "telexo", opcode |-> 96, tag |-> "SetEnvelopeMode", total |-> 3,
       fields |-> << <<"port", "u8">>, <<"enabled", "bool">> >>],
      [dev |-> "telexo", opcode |-> 109, tag |-> "SetEnvelopeState", total |-> 3,
       fields |-> << <<"port", "u8">>, <<"on", "bool">> >>] }

Row(dev, tag) == CHOOSE r \in TableRows : r.dev = dev /\ r.tag = tag

Required(dev, tag) == Row(dev, tag).total

\* (v >> 8) & 0xFF and v & 0xFF on the 16-bit pattern v mod 2^16
Hi16(v) == ((v % 65536) \div 256) % 256
Lo16(v) == (v % 65536) % 256

Width(ty) == IF ty \in {"i16", "u16"} THEN 2 ELSE 1

FieldBytes(ty, v) ==
    CASE ty = "u8" -> <<v>>
      [] ty = "bool" -> <<IF v THEN 1 ELSE 0>>
      [] ty \in {"i16", "u16"} -> <<Hi16(v), Lo16(v)>>

RECURSIVE PayloadBytes(_, _)
PayloadBytes(cmd, fields) ==
    IF fields = <<>> THEN <<>>
    ELSE FieldBytes(Head(fields)[2], cmd[Head(fields)[1]])
         \o PayloadBytes(cmd, Tail(fields))

Expected(dev, cmd) ==
    <<Row(dev, cmd.tag).opcode>> \o PayloadBytes(cmd, Row(dev, cmd.tag).fields)

\* 1-based position in the message of the first byte of field k
RECURSIVE Offset(_, _)
Offset(fields, k) ==
    IF k = 1 THEN 2 ELSE Offset(fields, k - 1) + Width(fields[k - 1][2])

DeclaredMax(dev) ==
    CASE dev = "ansible" -> 4
      [] dev = "er301" -> 4
      [] dev = "just_friends" -> 6
      [] dev = "telexo" -> 4

ClaimedOpcodes(dev) ==
    CASE dev = "ansible" -> {1, 2, 6, 16, 17, 18, 19, 32, 33, 48}
      [] dev = "er301" -> {0, 17, 18}
      [] dev = "just_friends" -> {1, 8}
      [] dev = "telexo" -> {0, 17, 18, 65, 74, 96, 109}

Called == last.dev # "none"

\* a byte past the returned message that an earlier command left behind
Residue == \E i \in (Len(last.out) + 1)..Len(buffer) : buffer[i] \notin Fill

\* other prior contents a buffer of the same length could have had
AltBuffers(n) ==
    {[i \in 1..n |-> f] : f \in Fill}
    \cup {[i \in 1..n |-> IF i % 2 = 0 THEN 170 ELSE 85]}

(***************************************************************************)
(* Claims                                                                  *)
(***************************************************************************)

\* C1: to_bytes with a buffer of exactly the variant's required byte count
\* (the table's total) always succeeds, even below MAX_LENGTH.
C1_ExactLengthSucceeds ==
    (Called /\ last.len = Required(last.dev, last.cmd.tag)) => last.status = "Ok"

\* C2: to_bytes with a buffer shorter than the variant's required byte count
\* returns Err(BufferTooSmall) and leaves every byte of the buffer as it was.
C2_ShortBufferFails ==
    [][(last'.dev # "none" /\ Len(buffer) < Required(last'.dev, last'.cmd.tag))
         => (last'.status = "Err" /\ buffer' = buffer)]_vars

C2_Witness ==
    /\ Called
    /\ last.len > 0
    /\ last.len = Required(last.dev, last.cmd.tag) - 1
    /\ last.status = "Err"

\* C3: a successful to_bytes returns exactly the table's bytes: the opcode,
\* then the payload fields in table order, u8 verbatim and bool as 1/0, of
\* the table's total length.
C3_TableLayout ==
    last.status = "Ok" =>
        /\ Len(last.out) = Row(last.dev, last.cmd.tag).total
        /\ last.out = Expected(last.dev, last.cmd)

C3_Witness ==
    /\ last.status = "Ok"
    /\ last.dev = "telexo"
    /\ last.cmd = [tag |-> "SetEnvelopeState", port |-> 200, on |-> TRUE]

\* C4: every 16-bit field v is emitted as (v >> 8) & 0xFF then v & 0xFF of
\* its two's-complement pattern; PlayNote{1, -1, 16000} is
\* [0x08, 0x01, 0xFF, 0xFF, 0x3E, 0x80].
C4_BigEndian ==
    last.status = "Ok" =>
        LET fields == Row(last.dev, last.cmd.tag).fields
        IN  /\ \A k \in 1..Len(fields) :
                   fields[k][2] \in {"i16", "u16"} =>
                       LET v == last.cmd[fields[k][1]]
                           at == Offset(fields, k)
                       IN  /\ at + 1 <= Len(last.out)
                           /\ last.out[at] = Hi16(v)
                           /\ last.out[at + 1] = Lo16(v)
            /\ (last.dev = "just_friends"
                /\ last.cmd = [tag |-> "PlayNote", output |-> 1, pitch |-> -1,
                               volume |-> 16000])
                   => last.out = <<8, 1, 255, 255, 62, 128>>

C4_Witness ==
    /\ last.status = "Ok"
    /\ last.dev = "just_friends"
    /\ last.cmd = [tag |-> "PlayNote", output |-> 1, pitch |-> -1, volume |-> 16000]

\* C5: on a buffer of exactly the vocabulary's MAX_LENGTH, reused for any
\* sequence of its commands, every to_bytes succeeds and returns at most
\* MAX_LENGTH bytes.
C5_MaxLengthBufferReusable ==
    (Called /\ last.len = DeclaredMax(last.dev)) =>
        /\ last.status = "Ok"
        /\ Len(last.out) <= DeclaredMax(last.dev)

C5_Witness ==
    /\ Called
    /\ last.dev = "just_friends"
    /\ last.len = DeclaredMax(last.dev)
    /\ last.status = "Ok"
    /\ Residue

\* C6: a successful to_bytes writes only indices 0..n-1, returns exactly
\* buffer[0..n], and leaves every byte at index >= n as it was.
C6_TailUntouched ==
    [][last'.status = "Ok" =>
          LET n == Len(last'.out)
          IN  /\ Len(buffer') = Len(buffer)
              /\ n <= Len(buffer')
              /\ last'.out = SubSeq(buffer', 1, n)
              /\ \A i \in (n + 1)..Len(buffer) : buffer'[i] = buffer[i]]_vars

C6_Witness ==
    /\ last.status = "Ok"
    /\ last.dev = "ansible"
    /\ last.cmd.tag = "SetTrToggle"
    /\ Len(buffer) > Len(last.out)
    /\ Residue

\* C7: to_bytes returns Ok or Err(BufferTooSmall) and never panics, for
\* every command value (out-of-range fields included) and every buffer
\* length from 0; no write or slice goes past the end of the buffer.
C7_OnlyBufferTooSmall ==
    Called =>
        /\ last.status \in {"Ok", "Err"}
        /\ Len(buffer) = last.len
        /\ Len(last.out) <= last.len

C7_Witness ==
    /\ last.dev = "telexo"
    /\ last.cmd.tag = "SetCv"
    /\ last.cmd.port = 200
    /\ last.len = 4
    /\ last.status = "Ok"

\* C8: the opcodes a vocabulary emits as byte 0 are exactly the listed set,
\* and no two distinct variants of a vocabulary emit the same opcode.
C8_OpcodeSets ==
    last.status = "Ok" =>
        /\ last.out[1] \in ClaimedOpcodes(last.dev)
        /\ Len(buffer) >= DeclaredMax(last.dev) =>
               {to_bytes(last.dev, c, buffer).out[1] : c \in Commands(last.dev)}
                   = ClaimedOpcodes(last.dev)
        /\ \A c \in Commands(last.dev) :
               LET r == to_bytes(last.dev, c, buffer)
               IN  (r.status = "Ok" /\ c.tag # last.cmd.tag)
                       => r.out[1] # last.out[1]

C8_Witness ==
    /\ last.status = "Ok"
    /\ last.dev = "telexo"
    /\ last.cmd.tag = "SetEnvelopeState"
    /\ last.out[1] = 109

\* C9: encoding the same command into another buffer of equal length gives
\* the same outcome and, on success, the same bytes, whatever the buffers
\* held before and whatever was encoded earlier.
C9_Deterministic ==
    Called =>
        \A b2 \in AltBuffers(last.len) :
            LET r2 == to_bytes(last.dev, last.cmd, b2)
            IN  /\ r2.status = last.status
                /\ last.status = "Ok" => r2.out = last.out

C9_Witness ==
    /\ last.status = "Ok"
    /\ last.dev = "just_friends"
    /\ last.cmd.tag = "SetGate"
    /\ last.cmd.state = FALSE
    /\ Residue

\* C10: read_fader(no), no in 0..15, issues exactly one write_read to 0x34
\* writing the byte no and reading 2 bytes; on success it returns
\* first * 256 + second, on a bus failure Error::I2C with the bus error and
\* nothing more is sent; the bus borrow is released so later calls on any
\* device of the same Mii proceed.
C10_ReadFader ==
    /\ (ret.op = "read_fader" /\ ret.no \in 0..15) =>
           /\ Len(i2c.log) = ret.pre_len + 1
           /\ LET e == i2c.log[Len(i2c.log)]
              IN  /\ e.tx = [kind |-> "write_read", address |-> 52,
                             bytes |-> <<ret.no>>, read_len |-> 2]
                  /\ ret.status = IF e.reply.ok THEN "Ok" ELSE "Err"
                  /\ e.reply.ok =>
                         ret.value = e.reply.data[1] * 256 + e.reply.data[2]
                  /\ ~e.reply.ok => ret.err = e.reply.err
    /\ ~i2c.borrowed
    /\ ret.op \in {"write", "read"} => ret.status \in {"Ok", "Err"}

C10_Witness ==
    /\ ret.op = "read_fader"
    /\ ret.no = 15
    /\ ret.status = "Ok"
    /\ ret.value = 4660
    /\ ret.pre_len >= 1

====
